---- MODULE Spec2Model ----
(***************************************************************************)
(* Bonding-curve launchpad (pump-fun-clone): the GlobalConfig and          *)
(* BondingCurve accounts, the constant-product quote functions and the     *)
(* five instructions initialize / create / buy / sell / complete.          *)
(*                                                                         *)
(* Amounts are scaled so that every product fits TLC's 32-bit integers:    *)
(* the program's u64 is a (U64_MAX + 1)-valued unsigned integer, one SOL   *)
(* unit of the model stands for 10^9 lamports and one token unit for 10^9  *)
(* base units.  The order of the program's constants is kept:              *)
(*   MIN_SOL_AMOUNT < CREATION_FEE < INITIAL_VIRTUAL_SOL_RESERVE           *)
(*     < TARGET_VIRTUAL_MC < CURVE_TOKENS < U64_MAX.                       *)
(*                                                                         *)
(* One instruction is one action: a Solana transaction is atomic, a failed *)
(* instruction rolls back every account it touched.  Lamport debits the    *)
(* handlers write with `-=` are modelled as the balance arithmetic the     *)
(* handlers state; a debit below zero aborts the instruction.              *)
(***************************************************************************)
EXTENDS Integers, FiniteSets, Sequences, TLC

(* ---------------------------------------------------------------- bounds *)
MaxOps == 5

Users == {"alice", "bob"}
Mints == {"m1", "m2"}
Timestamps == {1, 2}

(* --------------------------------------------------- constants.rs (scaled) *)
U64_MAX == 2097151
CURVE_TOKENS == 793000
INITIAL_VIRTUAL_SOL_RESERVE == 30
INITIAL_VIRTUAL_TOKEN_RESERVE == CURVE_TOKENS
TARGET_VIRTUAL_MC == 500
PROTOCOL_FEE_BPS == 50
CREATION_FEE == 3
MIN_SOL_AMOUNT == 2
BPS_DENOMINATOR == 10000
(* rent-exempt minimum the `init` constraint moves from the payer into the  *)
(* new account                                                              *)
CURVE_RENT == 1
CONFIG_RENT == 1

VARIABLES config, curves, lamports, tokens, clock, ops, last, txs

vars == <<config, curves, lamports, tokens, clock, ops, last, txs>>
core == <<config, curves, lamports, tokens>>

(* ------------------------------------------------------------ u64 helpers *)
AsU64(v) == v % (U64_MAX + 1)

Ok(v) == [ok |-> TRUE, err |-> "none", val |-> v]
Err(e) == [ok |-> FALSE, err |-> e, val |-> 0]

None == [some |-> FALSE, val |-> 0]
Some(v) == [some |-> TRUE, val |-> v]

(* ------------------------------------------------------------ constants.rs *)
calculate_k(sol_reserve, token_reserve) == sol_reserve * token_reserve

(* mutant: the fee is never withheld from the output *)
ApplyFee_NoFee(amount) == Ok(amount)

ApplyFee(amount) ==
    LET fee_amount == (amount * PROTOCOL_FEE_BPS) \div BPS_DENOMINATOR
    IN  IF AsU64(fee_amount) > amount
        THEN Err("MathOverflow")
        ELSE Ok(amount - AsU64(fee_amount))

(* mutant: the new SOL reserve wraps around u64 instead of failing *)
calculate_tokens_out_Wrapping(sol_in, sol_reserve, token_reserve) ==
    IF ~(sol_in > 0) THEN Err("InvalidAmount")
    ELSE IF ~(sol_reserve > 0) THEN Err("InvalidReserves")
    ELSE IF ~(token_reserve > 0) THEN Err("InvalidReserves")
    ELSE LET k == calculate_k(sol_reserve, token_reserve)
             new_sol_reserve == AsU64(sol_reserve + sol_in)
         IN  IF new_sol_reserve = 0 THEN Err("MathOverflow")
             ELSE LET new_token_reserve == AsU64(k \div new_sol_reserve)
                  IN  IF new_token_reserve > token_reserve
                      THEN Err("InsufficientLiquidity")
                      ELSE ApplyFee(token_reserve - new_token_reserve)

calculate_tokens_out(sol_in, sol_reserve, token_reserve) ==
    IF ~(sol_in > 0) THEN Err("InvalidAmount")
    ELSE IF ~(sol_reserve > 0) THEN Err("InvalidReserves")
    ELSE IF ~(token_reserve > 0) THEN Err("InvalidReserves")
    ELSE LET k == calculate_k(sol_reserve, token_reserve)
             new_sol_reserve == sol_reserve + sol_in
         IN  IF new_sol_reserve > U64_MAX THEN Err("MathOverflow")
             ELSE LET new_token_reserve == AsU64(k \div new_sol_reserve)
                  IN  IF new_token_reserve > token_reserve
                      THEN Err("InsufficientLiquidity")
                      ELSE ApplyFee(token_reserve - new_token_reserve)

(* mutant: the new SOL reserve is the remainder of the division, not the quotient *)
calculate_sol_out_Remainder(tokens_in, sol_reserve, token_reserve) ==
    IF ~(tokens_in > 0) THEN Err("InvalidAmount")
    ELSE IF ~(sol_reserve > 0) THEN Err("InvalidReserves")
    ELSE IF ~(token_reserve > 0) THEN Err("InvalidReserves")
    ELSE LET k == calculate_k(sol_reserve, token_reserve)
             new_token_reserve == token_reserve + tokens_in
         IN  IF new_token_reserve > U64_MAX THEN Err("MathOverflow")
             ELSE LET new_sol_reserve == AsU64(k % new_token_reserve)
                  IN  IF new_sol_reserve > sol_reserve
                      THEN Err("InsufficientLiquidity")
                      ELSE ApplyFee(sol_reserve - new_sol_reserve)

calculate_sol_out(tokens_in, sol_reserve, token_reserve) ==
    IF ~(tokens_in > 0) THEN Err("InvalidAmount")
    ELSE IF ~(sol_reserve > 0) THEN Err("InvalidReserves")
    ELSE IF ~(token_reserve > 0) THEN Err("InvalidReserves")
    ELSE LET k == calculate_k(sol_reserve, token_reserve)
             new_token_reserve == token_reserve + tokens_in
         IN  IF new_token_reserve > U64_MAX THEN Err("MathOverflow")
             ELSE LET new_sol_reserve == AsU64(k \div new_token_reserve)
                  IN  IF new_sol_reserve > sol_reserve
                      THEN Err("InsufficientLiquidity")
                      ELSE ApplyFee(sol_reserve - new_sol_reserve)

(* mutant: the target itself does not count as reached *)
is_complete_Strict(sol_reserve) == sol_reserve > TARGET_VIRTUAL_MC

is_complete(sol_reserve) == sol_reserve >= TARGET_VIRTUAL_MC

(* ---------------------------------------------------------------- state.rs *)
GlobalConfig_initialize(authority) ==
    [initialized |-> TRUE,
     authority |-> authority,
     protocol_fee_bps |-> PROTOCOL_FEE_BPS,
     creation_fee |-> CREATION_FEE,
     total_tokens_created |-> 0]

NoConfig ==
    [initialized |-> FALSE,
     authority |-> "none",
     protocol_fee_bps |-> 0,
     creation_fee |-> 0,
     total_tokens_created |-> 0]

BondingCurve_initialize(mint, creator, now) ==
    [mint |-> mint,
     creator |-> creator,
     virtual_sol_reserve |-> INITIAL_VIRTUAL_SOL_RESERVE,
     virtual_token_reserve |-> INITIAL_VIRTUAL_TOKEN_RESERVE,
     real_sol_reserve |-> 0,
     tokens_sold |-> 0,
     completed |-> FALSE,
     created_at |-> now,
     completed_at |-> None]

(* the four checked_* of update_after_buy; .expect() panics when one fails *)
update_after_buy_ok(c, sol_in, tokens_out) ==
    /\ c.virtual_sol_reserve + sol_in <= U64_MAX
    /\ c.virtual_token_reserve >= tokens_out
    /\ c.real_sol_reserve + sol_in <= U64_MAX
    /\ c.tokens_sold + tokens_out <= U64_MAX

(* mutant: real_sol_reserve accrues only the part of sol_in left after the  *)
(* protocol fee                                                            *)
update_after_buy_AccruesNet(c, sol_in, tokens_out) ==
    [c EXCEPT !.virtual_sol_reserve = @ + sol_in,
              !.virtual_token_reserve = @ - tokens_out,
              !.real_sol_reserve =
                  @ + (sol_in - ((sol_in * PROTOCOL_FEE_BPS) \div BPS_DENOMINATOR)),
              !.tokens_sold = @ + tokens_out]

update_after_buy(c, sol_in, tokens_out) ==
    [c EXCEPT !.virtual_sol_reserve = @ + sol_in,
              !.virtual_token_reserve = @ - tokens_out,
              !.real_sol_reserve = @ + sol_in,
              !.tokens_sold = @ + tokens_out]

update_after_sell_ok(c, tokens_in, sol_out) ==
    /\ c.virtual_sol_reserve >= sol_out
    /\ c.virtual_token_reserve + tokens_in <= U64_MAX
    /\ c.real_sol_reserve >= sol_out
    /\ c.tokens_sold >= tokens_in

(* mutant: tokens_sold is not reduced by a sell *)
update_after_sell_KeepsSold(c, tokens_in, sol_out) ==
    [c EXCEPT !.virtual_sol_reserve = @ - sol_out,
              !.virtual_token_reserve = @ + tokens_in,
              !.real_sol_reserve = @ - sol_out]

(* mutant: the sell marks the curve completed *)
update_after_sell_Completes(c, tokens_in, sol_out) ==
    [c EXCEPT !.virtual_sol_reserve = @ - sol_out,
              !.virtual_token_reserve = @ + tokens_in,
              !.real_sol_reserve = @ - sol_out,
              !.tokens_sold = @ - tokens_in,
              !.completed = TRUE,
              !.completed_at = Some(0)]

(* mutant: real_sol_reserve is not reduced by a sell *)
update_after_sell_KeepsReal(c, tokens_in, sol_out) ==
    [c EXCEPT !.virtual_sol_reserve = @ - sol_out,
              !.virtual_token_reserve = @ + tokens_in,
              !.tokens_sold = @ - tokens_in]

update_after_sell(c, tokens_in, sol_out) ==
    [c EXCEPT !.virtual_sol_reserve = @ - sol_out,
              !.virtual_token_reserve = @ + tokens_in,
              !.real_sol_reserve = @ - sol_out,
              !.tokens_sold = @ - tokens_in]

BondingCurve_complete(c, now) ==
    [c EXCEPT !.completed = TRUE, !.completed_at = Some(now)]

(* ------------------------------------------------------------------ events *)
NoEvent ==
    [kind |-> "none", mint |-> "none", who |-> "none", amount_in |-> 0,
     amount_out |-> 0, virtual_sol_reserve |-> 0, virtual_token_reserve |-> 0,
     completed |-> FALSE, timestamp |-> 0]

(* what the last instruction was, the mint it addressed, how it ended and   *)
(* the event it emitted                                                    *)
Outcome(op, m, err, ev) == [op |-> op, mint |-> m, err |-> err, ev |-> ev]

(* a transaction of a signer: not submitted ("idle"), submitted with its     *)
(* instruction and arguments, or running at position pc of the handler with *)
(* the bonding curve record it loaded, the quote it computed and the        *)
(* accounts as they were when it started                                    *)
NoTx ==
    [status |-> "idle", op |-> "none", mint |-> "none", amount |-> 0,
     min |-> 0, pc |-> "none", out |-> 0,
     curve |-> BondingCurve_initialize("none", "none", 0), snap |-> <<>>]

Exists(m) == m \in DOMAIN curves

TypeOK ==
    /\ config.initialized \in BOOLEAN
    /\ DOMAIN curves \subseteq Mints
    /\ \A a \in DOMAIN lamports : lamports[a] \in 0..U64_MAX
    /\ \A m \in Mints : \A u \in Users : tokens[m][u] \in 0..U64_MAX
    /\ clock \in Timestamps
    /\ ops \in Nat

(* the lamports the wallets hold before the first instruction *)
InitialLamports(a) == IF a = "alice" THEN 600 ELSE IF a = "bob" THEN 100 ELSE 0

Init ==
    /\ config = NoConfig
    /\ curves = [m \in {} |-> 0]
    /\ lamports = [a \in Users \cup Mints \cup {"treasury", "global_config"} |->
                     InitialLamports(a)]
    /\ tokens = [m \in Mints |-> [u \in Users |-> 0]]
    /\ clock = 1
    /\ ops = 0
    /\ last = Outcome("none", "none", "none", NoEvent)
    /\ txs = [u \in Users |-> NoTx]

Tick ==
    /\ clock + 1 \in Timestamps
    /\ clock' = clock + 1
    /\ UNCHANGED <<config, curves, lamports, tokens, ops, last, txs>>

(* ------------------------------------------------- instructions/initialize.rs *)
(* #[derive(Accounts)] Initialize: `init` of the global_config PDA, paid by   *)
(* the signer                                                                  *)
Initialize_accounts(payer) ==
    IF config.initialized THEN "AccountAlreadyInUse"
    ELSE IF lamports[payer] < CONFIG_RENT THEN "InsufficientFunds"
    ELSE "none"

Initialize(payer, authority) ==
    LET err == Initialize_accounts(payer)
    IN  /\ IF err = "none"
           THEN /\ config' = GlobalConfig_initialize(authority)
                /\ lamports' = [lamports EXCEPT ![payer] = @ - CONFIG_RENT,
                                                !["global_config"] = @ + CONFIG_RENT]
                /\ ops' = ops + 1
           ELSE UNCHANGED <<config, lamports, ops>>
        /\ last' = Outcome("initialize", "none", err, NoEvent)
        /\ UNCHANGED <<curves, tokens, clock, txs>>

(* ----------------------------------------------------- instructions/create.rs *)
(* #[derive(Accounts)] Create: `init` of the bonding_curve PDA of the mint,   *)
(* paid by the creator, then the global_config account is loaded              *)
(* mutant: init_if_needed, an existing bonding_curve account is accepted *)
Create_accounts_InitIfNeeded(creator, m) ==
    IF lamports[creator] < CURVE_RENT THEN "InsufficientFunds"
    ELSE IF ~config.initialized THEN "AccountNotInitialized"
    ELSE "none"

Create_accounts(creator, m) ==
    IF Exists(m) THEN "AccountAlreadyInUse"
    ELSE IF lamports[creator] < CURVE_RENT THEN "InsufficientFunds"
    ELSE IF ~config.initialized THEN "AccountNotInitialized"
    ELSE "none"

(* mutant: the creation fee is not required of the creator's balance *)
Create_error_NoFeeCheck(creator, m) == Create_accounts(creator, m)

Create_error(creator, m) ==
    LET acc == Create_accounts(creator, m)
    IN  IF acc # "none" THEN acc
        ELSE IF ~(lamports[creator] - CURVE_RENT >= config.creation_fee)
             THEN "InsufficientCreationFee"
        ELSE "none"

TokenCreated(m, creator, now) ==
    [NoEvent EXCEPT !.kind = "TokenCreated", !.mint = m, !.who = creator,
                    !.timestamp = now]

Create(creator, m) ==
    LET err == Create_error(creator, m)
    IN  /\ IF err = "none"
           THEN /\ lamports' =
                     [lamports EXCEPT ![creator] = @ - CURVE_RENT - config.creation_fee,
                                      ![m] = @ + CURVE_RENT,
                                      !["treasury"] = @ + config.creation_fee]
                /\ curves' = [x \in DOMAIN curves \cup {m} |->
                                IF x = m
                                THEN BondingCurve_initialize(m, creator, clock)
                                ELSE curves[x]]
                /\ last' = Outcome("create", m, err, TokenCreated(m, creator, clock))
                /\ ops' = ops + 1
           ELSE /\ UNCHANGED <<lamports, curves, ops>>
                /\ last' = Outcome("create", m, err, NoEvent)
        /\ UNCHANGED <<config, tokens, clock, txs>>

(* -------------------------------------------------------- instructions/buy.rs *)
(* #[derive(Accounts)] Buy: the bonding_curve account and its constraint, then *)
(* the global_config account                                                   *)
Buy_accounts(m) ==
    IF ~Exists(m) THEN "AccountNotInitialized"
    ELSE IF ~(~curves[m].completed) THEN "AlreadyCompleted"
    ELSE IF ~config.initialized THEN "AccountNotInitialized"
    ELSE "none"

ProtocolFee(amount) == AsU64((amount * PROTOCOL_FEE_BPS) \div BPS_DENOMINATOR)

Buy_quote(m, sol_in) ==
    calculate_tokens_out(sol_in, curves[m].virtual_sol_reserve,
                         curves[m].virtual_token_reserve)

(* mutant: the minimum amount is not required *)
Buy_error_NoMinimum(buyer, m, sol_in, min_tokens_out) ==
    LET acc == Buy_accounts(m)
    IN  IF acc # "none" THEN acc
        ELSE IF ~(sol_in > 0) THEN "InvalidAmount"
        ELSE LET q == Buy_quote(m, sol_in)
             IN  IF ~q.ok THEN q.err
                 ELSE IF ~(q.val >= min_tokens_out) THEN "SlippageExceeded"
                 ELSE IF ProtocolFee(sol_in) > sol_in THEN "MathOverflow"
                 ELSE IF lamports[buyer] < sol_in THEN "InsufficientFunds"
                 ELSE IF ~update_after_buy_ok(curves[m], sol_in, q.val) THEN "Panic"
                 ELSE "none"

Buy_error(buyer, m, sol_in, min_tokens_out) ==
    LET acc == Buy_accounts(m)
    IN  IF acc # "none" THEN acc
        ELSE IF ~(sol_in >= MIN_SOL_AMOUNT) THEN "MinSolAmountNotMet"
        ELSE IF ~(sol_in > 0) THEN "InvalidAmount"
        ELSE LET q == Buy_quote(m, sol_in)
             IN  IF ~q.ok THEN q.err
                 ELSE IF ~(q.val >= min_tokens_out) THEN "SlippageExceeded"
                 ELSE IF ProtocolFee(sol_in) > sol_in THEN "MathOverflow"
                 ELSE IF lamports[buyer] < sol_in THEN "InsufficientFunds"
                 ELSE IF ~update_after_buy_ok(curves[m], sol_in, q.val) THEN "Panic"
                 ELSE "none"

(* the curve record a successful buy leaves: update_after_buy, then complete  *)
(* when the new virtual SOL reserve has reached the target                    *)
Buy_curve(c, sol_in, tokens_out, now) ==
    LET c1 == update_after_buy(c, sol_in, tokens_out)
    IN  IF is_complete(c1.virtual_sol_reserve)
        THEN BondingCurve_complete(c1, now)
        ELSE c1

TokenBought(c1, buyer, sol_in, tokens_out, now) ==
    [kind |-> "TokenBought", mint |-> c1.mint, who |-> buyer,
     amount_in |-> sol_in, amount_out |-> tokens_out,
     virtual_sol_reserve |-> c1.virtual_sol_reserve,
     virtual_token_reserve |-> c1.virtual_token_reserve,
     completed |-> is_complete(c1.virtual_sol_reserve),
     timestamp |-> now]

Buy(buyer, m, sol_in, min_tokens_out) ==
    LET err == Buy_error(buyer, m, sol_in, min_tokens_out)
    IN  /\ IF err = "none"
           THEN LET tokens_out == Buy_quote(m, sol_in).val
                    protocol_fee == ProtocolFee(sol_in)
                    sol_after_fee == sol_in - protocol_fee
                    c1 == Buy_curve(curves[m], sol_in, tokens_out, clock)
                IN  /\ lamports' =
                         [lamports EXCEPT ![buyer] = @ - sol_in,
                                          !["treasury"] = (@ + sol_after_fee) + protocol_fee]
                    /\ tokens' = [tokens EXCEPT ![m][buyer] = @ + tokens_out]
                    /\ curves' = [curves EXCEPT ![m] = c1]
                    /\ last' = Outcome("buy", m, err,
                                       TokenBought(c1, buyer, sol_in, tokens_out, clock))
                    /\ ops' = ops + 1
           ELSE /\ UNCHANGED <<lamports, tokens, curves, ops>>
                /\ last' = Outcome("buy", m, err, NoEvent)
        /\ UNCHANGED <<config, clock, txs>>

(* ------------------------------------------------------- instructions/sell.rs *)
(* mutant: the `!bonding_curve.completed` constraint is missing *)
Sell_accounts_NoCompletedCheck(m) ==
    IF ~Exists(m) THEN "AccountNotInitialized"
    ELSE IF ~config.initialized THEN "AccountNotInitialized"
    ELSE "none"

Sell_accounts(m) ==
    IF ~Exists(m) THEN "AccountNotInitialized"
    ELSE IF ~(~curves[m].completed) THEN "AlreadyCompleted"
    ELSE IF ~config.initialized THEN "AccountNotInitialized"
    ELSE "none"

Sell_quote(m, tokens_in) ==
    calculate_sol_out(tokens_in, curves[m].virtual_sol_reserve,
                      curves[m].virtual_token_reserve)

(* what the seller is paid: the quote less a second protocol fee *)
Sell_sol_after_fee(sol_out) == sol_out - ProtocolFee(sol_out)

Sell_error(seller, m, tokens_in, min_sol_out) ==
    LET acc == Sell_accounts(m)
    IN  IF acc # "none" THEN acc
        ELSE IF ~(tokens_in > 0) THEN "InvalidAmount"
        ELSE IF ~(tokens[m][seller] >= tokens_in) THEN "InvalidAmount"
        ELSE LET q == Sell_quote(m, tokens_in)
             IN  IF ~q.ok THEN q.err
                 ELSE IF ~(q.val >= min_sol_out) THEN "SlippageExceeded"
                 ELSE IF ProtocolFee(q.val) > q.val THEN "MathOverflow"
                 ELSE IF ~(lamports["treasury"] >= Sell_sol_after_fee(q.val))
                      THEN "InsufficientLiquidity"
                 ELSE IF ~update_after_sell_ok(curves[m], tokens_in, q.val) THEN "Panic"
                 ELSE "none"

TokenSold(c1, seller, tokens_in, sol_after_fee, now) ==
    [kind |-> "TokenSold", mint |-> c1.mint, who |-> seller,
     amount_in |-> tokens_in, amount_out |-> sol_after_fee,
     virtual_sol_reserve |-> c1.virtual_sol_reserve,
     virtual_token_reserve |-> c1.virtual_token_reserve,
     completed |-> FALSE,
     timestamp |-> now]

Sell(seller, m, tokens_in, min_sol_out) ==
    LET err == Sell_error(seller, m, tokens_in, min_sol_out)
    IN  /\ IF err = "none"
           THEN LET sol_out == Sell_quote(m, tokens_in).val
                    sol_after_fee == Sell_sol_after_fee(sol_out)
                    c1 == update_after_sell(curves[m], tokens_in, sol_out)
                IN  /\ tokens' = [tokens EXCEPT ![m][seller] = @ - tokens_in]
                    /\ lamports' =
                         [lamports EXCEPT !["treasury"] = @ - sol_after_fee,
                                          ![seller] = @ + sol_after_fee]
                    /\ curves' = [curves EXCEPT ![m] = c1]
                    /\ last' = Outcome("sell", m, err,
                                       TokenSold(c1, seller, tokens_in, sol_after_fee, clock))
                    /\ ops' = ops + 1
           ELSE /\ UNCHANGED <<lamports, tokens, curves, ops>>
                /\ last' = Outcome("sell", m, err, NoEvent)
        /\ UNCHANGED <<config, clock, txs>>

(* --------------------------------------------------- instructions/complete.rs *)
(* mutant: the `!bonding_curve.completed` constraint is missing *)
Complete_accounts_NoCompletedCheck(m) ==
    IF ~Exists(m) THEN "AccountNotInitialized"
    ELSE IF ~is_complete(curves[m].virtual_sol_reserve) THEN "NotCompleted"
    ELSE IF ~config.initialized THEN "AccountNotInitialized"
    ELSE "none"

Complete_accounts(m) ==
    IF ~Exists(m) THEN "AccountNotInitialized"
    ELSE IF ~(~curves[m].completed) THEN "AlreadyCompleted"
    ELSE IF ~is_complete(curves[m].virtual_sol_reserve) THEN "NotCompleted"
    ELSE IF ~config.initialized THEN "AccountNotInitialized"
    ELSE "none"

Complete_error(m) ==
    LET acc == Complete_accounts(m)
    IN  IF acc # "none" THEN acc
        ELSE IF ~is_complete(curves[m].virtual_sol_reserve) THEN "NotCompleted"
        ELSE "none"

CurveCompleted(c1, now) ==
    [kind |-> "CurveCompleted", mint |-> c1.mint, who |-> c1.creator,
     amount_in |-> c1.real_sol_reserve, amount_out |-> c1.tokens_sold,
     virtual_sol_reserve |-> c1.virtual_sol_reserve,
     virtual_token_reserve |-> c1.virtual_token_reserve,
     completed |-> c1.completed_at.some,
     timestamp |-> now]

Complete(completer, m) ==
    LET err == Complete_error(m)
    IN  /\ IF err = "none"
           THEN LET c1 == BondingCurve_complete(curves[m], clock)
                IN  /\ curves' = [curves EXCEPT ![m] = c1]
                    /\ last' = Outcome("complete", m, err, CurveCompleted(c1, clock))
                    /\ ops' = ops + 1
           ELSE /\ UNCHANGED <<curves, ops>>
                /\ last' = Outcome("complete", m, err, NoEvent)
        /\ UNCHANGED <<config, lamports, tokens, clock, txs>>

(* ------------------------------------------------------------------ inputs *)
Admins == {"alice"}
BuyAmounts == {0, 1, MIN_SOL_AMOUNT, 100, 469, 470, U64_MAX}

QuoteVal(q) == IF q.ok THEN q.val ELSE 0
MinChoices(q) == {0, QuoteVal(q), QuoteVal(q) + 1}

SellAmounts(u, m) == {0, 1, tokens[m][u], tokens[m][u] + 1}

BuyMins(m, sol_in) ==
    MinChoices(IF Exists(m) THEN Buy_quote(m, sol_in) ELSE Err("none"))
SellMins(m, tokens_in) ==
    MinChoices(IF Exists(m) THEN Sell_quote(m, tokens_in) ELSE Err("none"))

(* the number of instructions a run commits is capped, for the search *)
More == ops < MaxOps

InitializeStep == More /\ \E p \in Admins, a \in Admins : Initialize(p, a)
CreateStep == More /\ \E u \in Users, m \in Mints : Create(u, m)
BuyStep(u, m) ==
    /\ More
    /\ \E sol_in \in BuyAmounts : \E mn \in BuyMins(m, sol_in) : Buy(u, m, sol_in, mn)
SellStep(u, m) ==
    /\ More
    /\ \E tokens_in \in SellAmounts(u, m) : \E mn \in SellMins(m, tokens_in) :
          Sell(u, m, tokens_in, mn)
CompleteStep == More /\ \E u \in Admins, m \in Mints : Complete(u, m)

Next ==
    \/ Tick
    \/ InitializeStep
    \/ CreateStep
    \/ \E u \in Users, m \in Mints : BuyStep(u, m)
    \/ \E u \in Users, m \in Mints : SellStep(u, m)
    \/ CompleteStep

Spec == Init /\ [][Next]_vars

(* ------------------------------------------- one trader, one curve, long runs *)
(* The same instructions driven by a single trader on a single curve with     *)
(* no slippage limit, for the states that only a longer run of trades         *)
(* reaches: buys of the minimum and of two larger amounts, sells of one token *)
(* unit and of the whole balance.                                             *)
MaxDeepOps == 13
Trader == "alice"
DeepMint == "m1"
DeepBuyAmounts == {MIN_SOL_AMOUNT, 205, 469}
DeepSellAmounts == {1, tokens[DeepMint][Trader]}

DeepMore == ops < MaxDeepOps

DeepInitialize == DeepMore /\ Initialize(Trader, Trader)
DeepCreate == DeepMore /\ Create(Trader, DeepMint)
DeepBuy == DeepMore /\ \E sol_in \in DeepBuyAmounts : Buy(Trader, DeepMint, sol_in, 0)
DeepSell == DeepMore /\ \E tokens_in \in DeepSellAmounts : Sell(Trader, DeepMint, tokens_in, 0)

NextDeep ==
    \/ DeepInitialize
    \/ DeepCreate
    \/ DeepBuy
    \/ DeepSell

SpecDeep == Init /\ [][NextDeep]_vars

(* ------------------------------------------------------- two curves, deep *)
(* The trader's run on one curve, next to a second signer who creates and     *)
(* buys on another curve: the two curves share nothing but the treasury.      *)
MaxPairOps == 10
OtherTrader == "bob"
OtherMint == "m2"
PairBuyAmounts == {4}
PairSellAmounts == {1, tokens[DeepMint][Trader]}

PairMore == ops < MaxPairOps

PairInitialize == PairMore /\ Initialize(Trader, Trader)
PairCreate == PairMore /\ Create(Trader, DeepMint)
PairBuy == PairMore /\ \E sol_in \in PairBuyAmounts : Buy(Trader, DeepMint, sol_in, 0)
PairSell == PairMore /\ \E tokens_in \in PairSellAmounts : Sell(Trader, DeepMint, tokens_in, 0)
PairCreateOther == PairMore /\ Create(OtherTrader, OtherMint)
PairBuyOther ==
    PairMore /\ \E sol_in \in PairBuyAmounts : Buy(OtherTrader, OtherMint, sol_in, 0)

NextPair ==
    \/ PairInitialize
    \/ PairCreate
    \/ PairBuy
    \/ PairSell
    \/ PairCreateOther
    \/ PairBuyOther

SpecPair == Init /\ [][NextPair]_vars

(* ------------------------------------------- a trader on a funded curve *)
(* Another signer sets the program and the curve up and buys while the       *)
(* trader holds no tokens; the trader only buys and sells, so every lamport  *)
(* the trader gains or loses comes from the trader's own trades.             *)
MaxRoundOps == 9
RoundDeposits == {50}
RoundBuyAmounts == {MIN_SOL_AMOUNT}
RoundSellAmounts == {1, tokens[DeepMint][Trader]}

RoundMore == ops < MaxRoundOps

RoundInitialize == RoundMore /\ Initialize(OtherTrader, OtherTrader)
RoundCreate == RoundMore /\ Create(OtherTrader, DeepMint)
RoundDeposit ==
    /\ RoundMore
    /\ tokens[DeepMint][Trader] = 0
    /\ \E sol_in \in RoundDeposits : Buy(OtherTrader, DeepMint, sol_in, 0)
RoundBuy == RoundMore /\ \E sol_in \in RoundBuyAmounts : Buy(Trader, DeepMint, sol_in, 0)
RoundSell ==
    RoundMore /\ \E tokens_in \in RoundSellAmounts : Sell(Trader, DeepMint, tokens_in, 0)

NextRound ==
    \/ RoundInitialize
    \/ RoundCreate
    \/ RoundDeposit
    \/ RoundBuy
    \/ RoundSell

SpecRound == Init /\ [][NextRound]_vars

(* ------------------------------------------------ the quote functions alone *)
(* calculate_tokens_out and calculate_sol_out applied to reserves and amounts *)
(* drawn from small sets; `last` holds the arguments and the result of the    *)
(* latest call, no instruction runs and no account changes.                   *)
QuoteSolReserves == {0, 1, 30, 235, 499, 2000}
QuoteTokenReserves == {0, 1, 7, 48206, 87326, INITIAL_VIRTUAL_TOKEN_RESERVE}
QuoteInputs ==
    (0..12) \cup {100, 205, 469, 49316, INITIAL_VIRTUAL_TOKEN_RESERVE,
                  U64_MAX - 2000, U64_MAX}

Quote(kind, amount, sol_reserve, token_reserve) ==
    IF kind = "QuoteBuy"
    THEN calculate_tokens_out(amount, sol_reserve, token_reserve)
    ELSE calculate_sol_out(amount, sol_reserve, token_reserve)

Quoted(kind, amount, sol_reserve, token_reserve) ==
    LET q == Quote(kind, amount, sol_reserve, token_reserve)
    IN  Outcome("quote", "none", q.err,
                [NoEvent EXCEPT !.kind = kind,
                                !.amount_in = amount,
                                !.amount_out = QuoteVal(q),
                                !.virtual_sol_reserve = sol_reserve,
                                !.virtual_token_reserve = token_reserve])

InitQuote ==
    /\ config = NoConfig
    /\ curves = [m \in {} |-> 0]
    /\ lamports = [a \in Users \cup Mints \cup {"treasury", "global_config"} |-> 0]
    /\ tokens = [m \in Mints |-> [u \in Users |-> 0]]
    /\ clock = 1
    /\ ops = 0
    /\ txs = [u \in Users |-> NoTx]
    /\ \E x \in QuoteSolReserves, y \in QuoteTokenReserves :
          last = Outcome("quote", "none", "none",
                         [NoEvent EXCEPT !.virtual_sol_reserve = x,
                                         !.virtual_token_reserve = y])

QuoteBuy ==
    /\ \E sol_in \in QuoteInputs :
          last' = Quoted("QuoteBuy", sol_in, last.ev.virtual_sol_reserve,
                         last.ev.virtual_token_reserve)
    /\ UNCHANGED <<config, curves, lamports, tokens, clock, ops, txs>>

QuoteSell ==
    /\ \E tokens_in \in QuoteInputs :
          last' = Quoted("QuoteSell", tokens_in, last.ev.virtual_sol_reserve,
                         last.ev.virtual_token_reserve)
    /\ UNCHANGED <<config, curves, lamports, tokens, clock, ops, txs>>

NextQuote ==
    \/ QuoteBuy
    \/ QuoteSell

SpecQuote == InitQuote /\ [][NextQuote]_vars

(* ----------------------------------------------- transactions, step by step *)
(* The buy and sell handlers statement by statement.  Signers submit          *)
(* transactions; the runtime starts a submitted transaction when no running   *)
(* transaction holds an account it writes (or writes one it reads), runs the  *)
(* handler on the bonding curve record it loaded, writes lamports and token   *)
(* balances in place, stores the record when the handler returns Ok and puts  *)
(* every account back as it was when the handler returns an error or panics.  *)
MaxStepOps == 8
StepBuyAmounts == {4}
StepSellAmounts(u) == {1, tokens[DeepMint][u]}

(* mutant: only the signer's own accounts are declared `mut` *)
Writable_OwnAccountsOnly(u, t) ==
    {<<"signer", u>>, <<"token_account", u, t.mint>>}

(* the accounts buy and sell declare `mut` *)
Writable(u, t) ==
    {<<"signer", u>>, <<"bonding_curve", t.mint>>, <<"mint", t.mint>>,
     <<"token_account", u, t.mint>>, <<"treasury">>}

(* the accounts buy and sell only read *)
Readonly(u, t) == {<<"global_config">>}

Conflict(u, v) ==
    \/ Writable(u, txs[u]) \cap (Writable(v, txs[v]) \cup Readonly(v, txs[v])) # {}
    \/ Writable(v, txs[v]) \cap Readonly(u, txs[u]) # {}

LocksFree(u) ==
    \A v \in Users \ {u} : txs[v].status = "running" => ~Conflict(u, v)

NoneRunning == \A u \in Users : txs[u].status # "running"

StepMore == ops < MaxStepOps

(* initialize and create write global_config and the treasury *)
StepInitialize == StepMore /\ NoneRunning /\ Initialize(Trader, Trader)
StepCreate == StepMore /\ NoneRunning /\ Create(Trader, DeepMint)

Submit(u, op, amount) ==
    /\ StepMore
    /\ txs[u].status = "idle"
    /\ txs' = [txs EXCEPT ![u] = [NoTx EXCEPT !.status = "submitted", !.op = op,
                                             !.mint = DeepMint, !.amount = amount]]
    /\ UNCHANGED <<config, curves, lamports, tokens, clock, ops, last>>

SubmitBuy == \E u \in Users : \E sol_in \in StepBuyAmounts : Submit(u, "buy", sol_in)
SubmitSell == \E u \in Users : \E tokens_in \in StepSellAmounts(u) : Submit(u, "sell", tokens_in)

(* the transaction ends with an error: every account is as it was at its start *)
Abort(u, err) ==
    /\ config' = txs[u].snap[1]
    /\ curves' = txs[u].snap[2]
    /\ lamports' = txs[u].snap[3]
    /\ tokens' = txs[u].snap[4]
    /\ txs' = [txs EXCEPT ![u] = NoTx]
    /\ last' = Outcome(txs[u].op, txs[u].mint, err, NoEvent)
    /\ UNCHANGED <<clock, ops>>

(* the handler moves on to position pc, having computed out *)
Goto(u, pc, out) ==
    /\ txs' = [txs EXCEPT ![u].pc = pc, ![u].out = out]
    /\ UNCHANGED <<config, curves, clock, ops, last>>

At(u, op, pc) ==
    /\ txs[u].status = "running"
    /\ txs[u].op = op
    /\ txs[u].pc = pc

(* the accounts are locked, validated and loaded *)
Begin(u) ==
    LET t == txs[u]
        acc == IF t.op = "buy" THEN Buy_accounts(t.mint) ELSE Sell_accounts(t.mint)
    IN  /\ t.status = "submitted"
        /\ LocksFree(u)
        /\ IF acc # "none"
           THEN /\ txs' = [txs EXCEPT ![u] = NoTx]
                /\ last' = Outcome(t.op, t.mint, acc, NoEvent)
           ELSE /\ txs' = [txs EXCEPT ![u].status = "running",
                                       ![u].pc = "validate",
                                       ![u].curve = curves[t.mint],
                                       ![u].snap = core]
                /\ UNCHANGED last
        /\ UNCHANGED <<config, curves, lamports, tokens, clock, ops>>

(* buy.rs 92-118: the input checks, the quote, the slippage check, the fee *)
BuyValidate_error(t) ==
    IF ~(t.amount >= MIN_SOL_AMOUNT) THEN "MinSolAmountNotMet"
    ELSE IF ~(t.amount > 0) THEN "InvalidAmount"
    ELSE LET q == calculate_tokens_out(t.amount, t.curve.virtual_sol_reserve,
                                       t.curve.virtual_token_reserve)
         IN  IF ~q.ok THEN q.err
             ELSE IF ~(q.val >= t.min) THEN "SlippageExceeded"
             ELSE IF ProtocolFee(t.amount) > t.amount THEN "MathOverflow"
             ELSE "none"

BuyValidate ==
    \E u \in Users :
        LET t == txs[u]
            err == BuyValidate_error(t)
        IN  /\ At(u, "buy", "validate")
            /\ IF err # "none"
               THEN Abort(u, err)
               ELSE /\ Goto(u, "transfer",
                            calculate_tokens_out(t.amount, t.curve.virtual_sol_reserve,
                                                 t.curve.virtual_token_reserve).val)
                    /\ UNCHANGED <<lamports, tokens>>

(* buy.rs 122-124: the buyer is debited, the treasury credited *)
BuyTransfer ==
    \E u \in Users :
        LET t == txs[u]
            protocol_fee == ProtocolFee(t.amount)
        IN  /\ At(u, "buy", "transfer")
            /\ IF lamports[u] < t.amount
               THEN Abort(u, "InsufficientFunds")
               ELSE /\ lamports' =
                         [lamports EXCEPT ![u] = @ - t.amount,
                                          !["treasury"] =
                                              (@ + (t.amount - protocol_fee)) + protocol_fee]
                    /\ Goto(u, "mint", t.out)
                    /\ UNCHANGED tokens

(* buy.rs 129-147: mint_to the buyer's token account *)
BuyMint ==
    \E u \in Users :
        LET t == txs[u]
        IN  /\ At(u, "buy", "mint")
            /\ tokens' = [tokens EXCEPT ![t.mint][u] = @ + t.out]
            /\ Goto(u, "update", t.out)
            /\ UNCHANGED lamports

(* buy.rs 150-170: update_after_buy, complete, the event; the record is stored *)
BuyUpdate ==
    \E u \in Users :
        LET t == txs[u]
        IN  /\ At(u, "buy", "update")
            /\ IF ~update_after_buy_ok(t.curve, t.amount, t.out)
               THEN Abort(u, "Panic")
               ELSE LET c1 == Buy_curve(t.curve, t.amount, t.out, clock)
                    IN  /\ curves' = [curves EXCEPT ![t.mint] = c1]
                        /\ last' = Outcome("buy", t.mint, "none",
                                           TokenBought(c1, u, t.amount, t.out, clock))
                        /\ txs' = [txs EXCEPT ![u] = NoTx]
                        /\ ops' = ops + 1
                        /\ UNCHANGED <<config, lamports, tokens, clock>>

(* sell.rs 92-123: the input checks, the quote, the slippage check, the fee *)
SellValidate_error(u, t) ==
    IF ~(t.amount > 0) THEN "InvalidAmount"
    ELSE IF ~(tokens[t.mint][u] >= t.amount) THEN "InvalidAmount"
    ELSE LET q == calculate_sol_out(t.amount, t.curve.virtual_sol_reserve,
                                    t.curve.virtual_token_reserve)
         IN  IF ~q.ok THEN q.err
             ELSE IF ~(q.val >= t.min) THEN "SlippageExceeded"
             ELSE IF ProtocolFee(q.val) > q.val THEN "MathOverflow"
             ELSE "none"

SellValidate ==
    \E u \in Users :
        LET t == txs[u]
            err == SellValidate_error(u, t)
        IN  /\ At(u, "sell", "validate")
            /\ IF err # "none"
               THEN Abort(u, err)
               ELSE /\ Goto(u, "burn",
                            calculate_sol_out(t.amount, t.curve.virtual_sol_reserve,
                                              t.curve.virtual_token_reserve).val)
                    /\ UNCHANGED <<lamports, tokens>>

(* sell.rs 126-133: burn from the seller's token account *)
SellBurn ==
    \E u \in Users :
        LET t == txs[u]
        IN  /\ At(u, "sell", "burn")
            /\ tokens' = [tokens EXCEPT ![t.mint][u] = @ - t.amount]
            /\ Goto(u, "liquidity", t.out)
            /\ UNCHANGED lamports

(* sell.rs 137-140: the treasury must hold what the seller is paid *)
SellLiquidity ==
    \E u \in Users :
        LET t == txs[u]
        IN  /\ At(u, "sell", "liquidity")
            /\ IF ~(lamports["treasury"] >= Sell_sol_after_fee(t.out))
               THEN Abort(u, "InsufficientLiquidity")
               ELSE /\ Goto(u, "transfer", t.out)
                    /\ UNCHANGED <<lamports, tokens>>

(* sell.rs 142-143: the treasury is debited, the seller credited *)
SellTransfer ==
    \E u \in Users :
        LET t == txs[u]
            sol_after_fee == Sell_sol_after_fee(t.out)
        IN  /\ At(u, "sell", "transfer")
            /\ lamports' = [lamports EXCEPT !["treasury"] = @ - sol_after_fee,
                                            ![u] = @ + sol_after_fee]
            /\ Goto(u, "update", t.out)
            /\ UNCHANGED tokens

(* sell.rs 149-162: update_after_sell, the event; the record is stored *)
SellUpdate ==
    \E u \in Users :
        LET t == txs[u]
        IN  /\ At(u, "sell", "update")
            /\ IF ~update_after_sell_ok(t.curve, t.amount, t.out)
               THEN Abort(u, "Panic")
               ELSE LET c1 == update_after_sell(t.curve, t.amount, t.out)
                    IN  /\ curves' = [curves EXCEPT ![t.mint] = c1]
                        /\ last' = Outcome("sell", t.mint, "none",
                                           TokenSold(c1, u, t.amount,
                                                     Sell_sol_after_fee(t.out), clock))
                        /\ txs' = [txs EXCEPT ![u] = NoTx]
                        /\ ops' = ops + 1
                        /\ UNCHANGED <<config, lamports, tokens, clock>>

NextSteps ==
    \/ StepInitialize
    \/ StepCreate
    \/ SubmitBuy
    \/ SubmitSell
    \/ \E u \in Users : Begin(u)
    \/ BuyValidate
    \/ BuyTransfer
    \/ BuyMint
    \/ BuyUpdate
    \/ SellValidate
    \/ SellBurn
    \/ SellLiquidity
    \/ SellTransfer
    \/ SellUpdate

SpecSteps == Init /\ [][NextSteps]_vars

(* ------------------------------------------------------------- properties *)
(* a step that executes an instruction: every step but the clock's *)
Instruction == clock' = clock

K(c) == c.virtual_sol_reserve * c.virtual_token_reserve

(* a committed buy or sell on the curve of mint m *)
Traded(m) ==
    /\ Exists(m)
    /\ ops' = ops + 1
    /\ last'.ev.kind \in {"TokenBought", "TokenSold"}
    /\ last'.ev.mint = m

(* the fee the quote withheld from the output of the committed trade on m,  *)
(* from the reserves before the trade and the amount that went in           *)
FeeWithheld(m) ==
    LET x == curves[m].virtual_sol_reserve
        y == curves[m].virtual_token_reserve
        a == last'.ev.amount_in
        raw == IF last'.ev.kind = "TokenBought"
               THEN y - ((x * y) \div (x + a))
               ELSE x - ((x * y) \div (y + a))
    IN  (raw * PROTOCOL_FEE_BPS) \div BPS_DENOMINATOR

C2_TokensSoldMatchesReserve ==
    \A m \in DOMAIN curves :
        /\ curves[m].tokens_sold =
             INITIAL_VIRTUAL_TOKEN_RESERVE - curves[m].virtual_token_reserve
        /\ curves[m].virtual_token_reserve >= 0
        /\ curves[m].virtual_token_reserve <= INITIAL_VIRTUAL_TOKEN_RESERVE

C2_Witness ==
    /\ last.ev.kind = "TokenSold"
    /\ curves[last.ev.mint].tokens_sold > 0

(* C3: completed never goes back to false, completed_at is set exactly when  *)
(* completed is true, and once set completed_at never changes.               *)
C3_CompletedOnce ==
    /\ [](\A m \in DOMAIN curves : curves[m].completed_at.some <=> curves[m].completed)
    /\ [][\A m \in DOMAIN curves :
            curves[m].completed =>
               /\ curves'[m].completed
               /\ curves'[m].completed_at = curves[m].completed_at]_vars

C3_Witness ==
    \E m \in DOMAIN curves :
        /\ curves[m].completed
        /\ curves[m].completed_at.val < clock
        /\ last.op = "complete"

(* C4: on a completed curve every buy and every sell, whatever its amount    *)
(* and slippage argument, fails with AlreadyCompleted and changes no curve,  *)
(* token balance or lamport balance.                                         *)
C4_CompletedFrozen ==
    [][\A m \in Mints :
          (/\ Exists(m)
           /\ curves[m].completed
           /\ Instruction
           /\ last'.op \in {"buy", "sell"}
           /\ last'.mint = m)
             => (last'.err = "AlreadyCompleted" /\ UNCHANGED core)]_vars

C4_Witness ==
    /\ last.op = "sell"
    /\ last.err = "AlreadyCompleted"
    /\ \E m \in DOMAIN curves, u \in Users : curves[m].completed /\ tokens[m][u] > 0

(* a committed buy / sell: the instruction counter moved and the event it    *)
(* emitted names the signer, the mint and the amount that went in            *)
Bought == ops' = ops + 1 /\ last'.ev.kind = "TokenBought"
Sold == ops' = ops + 1 /\ last'.ev.kind = "TokenSold"

(* C5: a committed buy of sol_in, with tokens_out the quote on the reserves   *)
(* before it, adds sol_in to virtual_sol_reserve and real_sol_reserve, moves  *)
(* tokens_out from virtual_token_reserve to tokens_sold, mints tokens_out to  *)
(* the buyer, debits the buyer sol_in and credits the treasury sol_in.        *)
C5_BuyDeltas ==
    [][Bought =>
         LET u == last'.ev.who
             m == last'.ev.mint
             sol_in == last'.ev.amount_in
             tokens_out ==
                 calculate_tokens_out(sol_in, curves[m].virtual_sol_reserve,
                                      curves[m].virtual_token_reserve).val
         IN  /\ curves'[m].virtual_sol_reserve = curves[m].virtual_sol_reserve + sol_in
             /\ curves'[m].real_sol_reserve = curves[m].real_sol_reserve + sol_in
             /\ curves'[m].virtual_token_reserve =
                  curves[m].virtual_token_reserve - tokens_out
             /\ curves'[m].tokens_sold = curves[m].tokens_sold + tokens_out
             /\ tokens'[m][u] = tokens[m][u] + tokens_out
             /\ lamports'[u] = lamports[u] - sol_in
             /\ lamports'["treasury"] = lamports["treasury"] + sol_in]_vars

C5_Witness ==
    /\ last.ev.kind = "TokenBought"
    /\ last.ev.amount_in = 100
    /\ curves[last.ev.mint].real_sol_reserve > 100

(* C6: a committed buy leaves the curve completed, with completed_at stamped  *)
(* with the time of the buy, exactly when the virtual SOL reserve after it is *)
(* at least the target; otherwise the curve stays active with completed_at    *)
(* unset; the TokenBought event carries the curve's completed flag.           *)
C6_BuyGraduates ==
    [][Bought =>
         LET m == last'.ev.mint
         IN  /\ curves'[m].completed <=>
                  curves'[m].virtual_sol_reserve >= TARGET_VIRTUAL_MC
             /\ curves'[m].completed => curves'[m].completed_at = Some(clock)
             /\ ~curves'[m].completed => curves'[m].completed_at = None
             /\ last'.ev.completed = curves'[m].completed]_vars

C6_Witness ==
    /\ last.ev.kind = "TokenBought"
    /\ last.ev.virtual_sol_reserve = TARGET_VIRTUAL_MC
    /\ curves[last.ev.mint].completed

C6_WitnessBelow ==
    /\ last.ev.kind = "TokenBought"
    /\ last.ev.virtual_sol_reserve = TARGET_VIRTUAL_MC - 1
    /\ ~curves[last.ev.mint].completed

(* C7 (as claimed): a committed sell of tokens_in, with sol_out the quote on  *)
(* the reserves before it, pays the seller exactly sol_out out of the         *)
(* treasury, lowers virtual_sol_reserve and real_sol_reserve by that same     *)
(* amount and reports it in TokenSold; it moves tokens_in from tokens_sold    *)
(* back to virtual_token_reserve and burns tokens_in from the seller.         *)
C7_SellDeltas ==
    [][Sold =>
         LET u == last'.ev.who
             m == last'.ev.mint
             tokens_in == last'.ev.amount_in
             sol_out ==
                 calculate_sol_out(tokens_in, curves[m].virtual_sol_reserve,
                                   curves[m].virtual_token_reserve).val
         IN  /\ lamports'[u] = lamports[u] + sol_out
             /\ lamports'["treasury"] = lamports["treasury"] - sol_out
             /\ curves'[m].virtual_sol_reserve = curves[m].virtual_sol_reserve - sol_out
             /\ curves'[m].real_sol_reserve = curves[m].real_sol_reserve - sol_out
             /\ last'.ev.amount_out = sol_out
             /\ curves'[m].virtual_token_reserve =
                  curves[m].virtual_token_reserve + tokens_in
             /\ curves'[m].tokens_sold = curves[m].tokens_sold - tokens_in
             /\ tokens'[m][u] = tokens[m][u] - tokens_in]_vars

(* C8 (as claimed): a sell that gets as far as its quote, and whose quoted    *)
(* sol_out exceeds the treasury balance, fails with InsufficientLiquidity;    *)
(* and every committed sell has its quoted sol_out less than or equal to the  *)
(* curve's real_sol_reserve before the trade.                                 *)
C8_SellLiquidity ==
    [][\A tokens_in \in DeepSellAmounts :
          (/\ Sell(Trader, DeepMint, tokens_in, 0)
           /\ Sell_accounts(DeepMint) = "none"
           /\ tokens_in > 0
           /\ tokens[DeepMint][Trader] >= tokens_in
           /\ Sell_quote(DeepMint, tokens_in).ok)
             => LET sol_out == Sell_quote(DeepMint, tokens_in).val
                IN  /\ sol_out > lamports["treasury"]
                         => last'.err = "InsufficientLiquidity"
                    /\ Sold => sol_out <= curves[DeepMint].real_sol_reserve]_vars

(* C9 (as claimed): in every reachable state, for every curve still active    *)
(* and every sol_in some buyer's buy succeeds with and leaves the curve       *)
(* active, quoting the sale of the tokens bought on the reserves the buy      *)
(* leaves gives a sol_out less than or equal to sol_in.                       *)
C9_RoundTrip ==
    \A m \in DOMAIN curves : \A sol_in \in BuyAmounts :
        (\E u \in Users : Buy_error(u, m, sol_in, 0) = "none") =>
            LET tokens_out == Buy_quote(m, sol_in).val
                c1 == Buy_curve(curves[m], sol_in, tokens_out, clock)
                back == calculate_sol_out(tokens_out, c1.virtual_sol_reserve,
                                          c1.virtual_token_reserve)
            IN  (~c1.completed /\ back.ok) => back.val <= sol_in

(* C10: for fixed positive reserves, calculate_tokens_out is non-decreasing   *)
(* in sol_in and calculate_sol_out is non-decreasing in tokens_in: whenever   *)
(* the quote succeeds on two amounts, the smaller amount never gets the       *)
(* larger output, fee deduction included.                                     *)
C10_QuotesMonotone ==
    (last.op = "quote" /\ last.err = "none" /\ last.ev.kind # "none") =>
        \A b \in QuoteInputs :
            LET q == Quote(last.ev.kind, b, last.ev.virtual_sol_reserve,
                           last.ev.virtual_token_reserve)
            IN  q.ok =>
                  /\ (last.ev.amount_in <= b => last.ev.amount_out <= q.val)
                  /\ (b <= last.ev.amount_in => q.val <= last.ev.amount_out)

C10_Witness ==
    /\ last.op = "quote"
    /\ last.err = "none"
    /\ last.ev.kind = "QuoteSell"
    /\ last.ev.amount_out >= 200
    /\ \E b \in QuoteInputs :
          LET q == Quote("QuoteSell", b, last.ev.virtual_sol_reserve,
                         last.ev.virtual_token_reserve)
          IN  b < last.ev.amount_in /\ q.ok /\ q.val > 0 /\ q.val < last.ev.amount_out

C10_WitnessBuy ==
    /\ last.op = "quote"
    /\ last.err = "none"
    /\ last.ev.kind = "QuoteBuy"
    /\ last.ev.amount_out >= 200
    /\ \E b \in QuoteInputs :
          LET q == Quote("QuoteBuy", b, last.ev.virtual_sol_reserve,
                         last.ev.virtual_token_reserve)
          IN  b < last.ev.amount_in /\ q.ok /\ q.val > 0 /\ q.val < last.ev.amount_out

(* C11: a complete on a curve that is already completed fails with            *)
(* AlreadyCompleted, a complete on an active curve whose virtual SOL reserve  *)
(* is below the target fails with NotCompleted, and neither changes any       *)
(* curve record.                                                              *)
C11_CompleteRejected ==
    [][\A m \in Mints :
          (/\ Exists(m)
           /\ Instruction
           /\ last'.op = "complete"
           /\ last'.mint = m)
             => /\ curves[m].completed
                     => (last'.err = "AlreadyCompleted" /\ curves' = curves)
                /\ (~curves[m].completed
                      /\ curves[m].virtual_sol_reserve < TARGET_VIRTUAL_MC)
                     => (last'.err = "NotCompleted" /\ curves' = curves)]_vars

C11_Witness ==
    /\ last.op = "complete"
    /\ last.err = "AlreadyCompleted"
    /\ curves[last.mint].completed
    /\ curves[last.mint].virtual_sol_reserve > TARGET_VIRTUAL_MC

C11_WitnessActive ==
    /\ last.op = "complete"
    /\ last.err = "NotCompleted"
    /\ ~curves[last.mint].completed
    /\ curves[last.mint].real_sol_reserve > 0

(* C12 (as claimed): in every reachable state the configuration's count of    *)
(* tokens created equals the number of bonding curve records that exist.      *)
C12_CreatedCounted ==
    config.total_tokens_created = Cardinality(DOMAIN curves)

(* C13: a committed create leaves a record that is active, with the initial   *)
(* virtual SOL reserve, the curve's token allocation as virtual token         *)
(* reserve, real_sol_reserve 0, tokens_sold 0 and completed_at unset; a       *)
(* create for a mint that already has a record fails and changes no record.   *)
C13_CreateSeedsRecord ==
    [][\A m \in Mints :
          (Instruction /\ last'.op = "create" /\ last'.mint = m) =>
             /\ last'.err = "none" =>
                   /\ curves'[m].virtual_sol_reserve = INITIAL_VIRTUAL_SOL_RESERVE
                   /\ curves'[m].virtual_token_reserve = CURVE_TOKENS
                   /\ curves'[m].real_sol_reserve = 0
                   /\ curves'[m].tokens_sold = 0
                   /\ curves'[m].completed = FALSE
                   /\ curves'[m].completed_at = None
                   /\ curves'[m].created_at = clock
                   /\ \A x \in DOMAIN curves : curves'[x] = curves[x]
             /\ Exists(m) => (last'.err # "none" /\ curves' = curves)]_vars

C13_Witness ==
    /\ last.op = "create"
    /\ last.err = "AccountAlreadyInUse"
    /\ curves[last.mint].real_sol_reserve > 0
    /\ \E m \in DOMAIN curves : m # last.mint

(* C14 (as claimed): a create by a creator whose balance is below the         *)
(* creation fee fails with InsufficientCreationFee and changes no record and  *)
(* no balance; a committed create credits the treasury exactly the creation   *)
(* fee, taken from the creator.                                               *)
C14_CreateFee ==
    [][\A u \in Users, m \in Mints :
          Create(u, m) =>
             /\ (~Exists(m) /\ config.initialized
                   /\ lamports[u] < config.creation_fee)
                  => (last'.err = "InsufficientCreationFee" /\ UNCHANGED core)
             /\ last'.err = "none" =>
                   /\ lamports'["treasury"] = lamports["treasury"] + config.creation_fee
                   /\ lamports'[u] = lamports[u] - config.creation_fee - CURVE_RENT]_vars

(* C14 (amended): a create by a creator who can pay the rent of the new       *)
(* bonding curve account but whose balance after that rent is below the       *)
(* creation fee fails with InsufficientCreationFee; a creator who cannot pay  *)
(* the rent fails in the account's creation, before the fee is looked at;     *)
(* both change no record and no balance. A committed create credits the       *)
(* treasury exactly the creation fee and debits the creator the fee and the   *)
(* rent.                                                                      *)
C14_CreateFeeAfterRent ==
    [][\A u \in Users, m \in Mints :
          Create(u, m) =>
             /\ (~Exists(m) /\ config.initialized
                   /\ lamports[u] >= CURVE_RENT
                   /\ lamports[u] - CURVE_RENT < config.creation_fee)
                  => (last'.err = "InsufficientCreationFee" /\ UNCHANGED core)
             /\ (~Exists(m) /\ lamports[u] < CURVE_RENT)
                  => (last'.err = "InsufficientFunds" /\ UNCHANGED core)
             /\ last'.err = "none" =>
                   /\ lamports'["treasury"] = lamports["treasury"] + config.creation_fee
                   /\ lamports'[u] = lamports[u] - config.creation_fee - CURVE_RENT]_vars

C14_Witness ==
    /\ last.op = "create"
    /\ last.err = "InsufficientCreationFee"
    /\ \E u \in Users : lamports[u] >= CURVE_RENT /\ lamports[u] < CREATION_FEE

(* C15: on an active curve a buy of less than MIN_SOL_AMOUNT, zero included,  *)
(* fails with MinSolAmountNotMet and changes no record and no balance; and in *)
(* every reachable state a buy of exactly MIN_SOL_AMOUNT with min_tokens_out  *)
(* 0, by a buyer who holds that amount, succeeds on every active curve with   *)
(* positive reserves.                                                         *)
C15_MinimumBuy ==
    /\ [](\A m \in DOMAIN curves : \A u \in Users :
            (/\ ~curves[m].completed
             /\ curves[m].virtual_sol_reserve > 0
             /\ curves[m].virtual_token_reserve > 0
             /\ lamports[u] >= MIN_SOL_AMOUNT)
               => Buy_error(u, m, MIN_SOL_AMOUNT, 0) = "none")
    /\ [][\A m \in Mints :
            (/\ Instruction
             /\ last'.op = "buy"
             /\ last'.mint = m
             /\ Exists(m)
             /\ ~curves[m].completed)
               => \A u \in Users : \A sol_in \in 0..(MIN_SOL_AMOUNT - 1) :
                     \A mn \in BuyMins(m, sol_in) :
                        Buy(u, m, sol_in, mn)
                          => (last'.err = "MinSolAmountNotMet" /\ UNCHANGED core)]_vars

C15_Witness ==
    /\ last.op = "buy"
    /\ last.err = "MinSolAmountNotMet"
    /\ ~curves[last.mint].completed
    /\ curves[last.mint].real_sol_reserve > MIN_SOL_AMOUNT

C15_WitnessMinimum ==
    /\ last.ev.kind = "TokenBought"
    /\ last.ev.amount_in = MIN_SOL_AMOUNT
    /\ curves[last.ev.mint].real_sol_reserve > MIN_SOL_AMOUNT

(* C16 (as claimed): a buy whose quoted tokens_out is below min_tokens_out    *)
(* and a sell whose quoted sol_out is below min_sol_out fail with             *)
(* SlippageExceeded and change no record, no token balance and no lamport     *)
(* balance; a committed buy mints the buyer at least min_tokens_out and a     *)
(* committed sell pays the seller at least min_sol_out.                       *)
C16_Slippage ==
    [][\A m \in Mints :
          (Instruction /\ last'.mint = m /\ Exists(m) /\ ~curves[m].completed) =>
             /\ last'.op = "buy" =>
                   \A u \in Users : \A sol_in \in BuyAmounts :
                      \A mn \in BuyMins(m, sol_in) :
                         Buy(u, m, sol_in, mn) =>
                            /\ (/\ sol_in >= MIN_SOL_AMOUNT
                                 /\ Buy_quote(m, sol_in).ok
                                 /\ Buy_quote(m, sol_in).val < mn)
                                  => (last'.err = "SlippageExceeded" /\ UNCHANGED core)
                            /\ last'.err = "none"
                                  => tokens'[m][u] - tokens[m][u] >= mn
             /\ last'.op = "sell" =>
                   \A u \in Users : \A tokens_in \in SellAmounts(u, m) :
                      \A mn \in SellMins(m, tokens_in) :
                         Sell(u, m, tokens_in, mn) =>
                            /\ (/\ tokens_in > 0
                                 /\ tokens[m][u] >= tokens_in
                                 /\ Sell_quote(m, tokens_in).ok
                                 /\ Sell_quote(m, tokens_in).val < mn)
                                  => (last'.err = "SlippageExceeded" /\ UNCHANGED core)
                            /\ last'.err = "none"
                                  => lamports'[u] - lamports[u] >= mn]_vars

(* C17 (as claimed): in buy and in sell every check that can fail is made     *)
(* before the first effect: when a running transaction ends with an error,    *)
(* no lamport has moved, no token was minted or burned and no record was      *)
(* written since it started; in particular the seller of a sell that fails    *)
(* with InsufficientLiquidity still holds every token.                        *)
C17_ValidateThenCommit ==
    [][\A u \in Users :
          (/\ txs[u].status = "running"
           /\ txs'[u].status = "idle"
           /\ last'.err # "none")
             => core = txs[u].snap]_vars

(* C18: buys submitted concurrently against one curve commit one after        *)
(* another: no two transactions run on the same curve at the same time, and   *)
(* a buy that commits computed its quote from the record as the previously    *)
(* committed transaction left it, so that the record it stores is the one     *)
(* the buy applied alone to the stored record gives.                          *)
C18_BuysSerialized ==
    /\ [](\A u, v \in Users :
            (/\ u # v
             /\ txs[u].status = "running"
             /\ txs[v].status = "running") => txs[u].mint # txs[v].mint)
    /\ [][\A u \in Users :
            (/\ At(u, "buy", "update")
             /\ txs'[u].status = "idle"
             /\ last'.err = "none")
               => LET m == txs[u].mint
                      sol_in == txs[u].amount
                  IN  /\ txs[u].curve = curves[m]
                      /\ txs[u].out = Buy_quote(m, sol_in).val
                      /\ curves'[m] =
                           Buy_curve(curves[m], sol_in, Buy_quote(m, sol_in).val, clock)
                      /\ curves'[m].real_sol_reserve =
                           curves[m].real_sol_reserve + sol_in]_vars

C18_Witness ==
    \E u, v \in Users :
        /\ u # v
        /\ At(u, "buy", "update")
        /\ txs[v].status = "submitted"
        /\ txs[v].op = "buy"
        /\ txs[v].mint = txs[u].mint
        /\ curves[txs[u].mint].real_sol_reserve > 0

(* C19: operations on different curves are independent.  A committed          *)
(* instruction on the curve of mint a leaves the record of every other curve  *)
(* b as it was, and leaves the outcome of every instruction that another      *)
(* signer may send to b as it was: the same error or success and the same     *)
(* quote, whether it runs before or after the instruction on a.               *)
C19_CurvesIndependent ==
    [][\A a \in Mints :
          (/\ Instruction
           /\ last'.mint = a
           /\ last'.err = "none")
             => \A b \in Mints \ {a} :
                  /\ Exists(b)' = Exists(b)
                  /\ Complete_error(b)' = Complete_error(b)
                  /\ \A v \in Users \ {last'.ev.who} :
                       /\ Create_error(v, b)' = Create_error(v, b)
                       /\ \A sol_in \in {MIN_SOL_AMOUNT, 4} :
                            Buy_error(v, b, sol_in, 0)' = Buy_error(v, b, sol_in, 0)
                       /\ \A tokens_in \in {1, tokens[b][v]} :
                            Sell_error(v, b, tokens_in, 0)' =
                              Sell_error(v, b, tokens_in, 0)
                  /\ Exists(b) =>
                       /\ curves'[b] = curves[b]
                       /\ \A sol_in \in {MIN_SOL_AMOUNT, 4} :
                            Buy_quote(b, sol_in)' = Buy_quote(b, sol_in)
                       /\ \A v \in Users : \A tokens_in \in {1, tokens[b][v]} :
                            Sell_quote(b, tokens_in)' = Sell_quote(b, tokens_in)]_vars

C20_WitnessInvalidReserves ==
    /\ last.op = "quote"
    /\ last.ev.kind = "QuoteBuy"
    /\ last.ev.amount_in > 0
    /\ last.ev.virtual_token_reserve = 0
    /\ last.err = "InvalidReserves"

(* C21: arithmetic overflow is a failure, never a wrapped value.  On positive *)
(* reserves and a positive amount, a quote whose input reserve plus the       *)
(* amount exceeds u64 fails with MathOverflow; every other quote returns the  *)
(* value of the unbounded arithmetic, the quotient k / new_reserve and the    *)
(* fee fit u64 before they are narrowed, and update_after_buy /               *)
(* update_after_sell on a record with these reserves either store the exact   *)
(* sums and differences, all within u64, or fail.                             *)
C21_OverflowFails ==
    (/\ last.op = "quote"
     /\ last.ev.kind \in {"QuoteBuy", "QuoteSell"}
     /\ last.ev.amount_in > 0
     /\ last.ev.virtual_sol_reserve > 0
     /\ last.ev.virtual_token_reserve > 0) =>
        LET buy == last.ev.kind = "QuoteBuy"
            amount == last.ev.amount_in
            x == last.ev.virtual_sol_reserve
            y == last.ev.virtual_token_reserve
            in_reserve == IF buy THEN x ELSE y
            out_reserve == IF buy THEN y ELSE x
        IN  IF in_reserve + amount > U64_MAX
            THEN last.err = "MathOverflow"
            ELSE LET wide == (x * y) \div (in_reserve + amount)
                     raw == out_reserve - wide
                     fee == (raw * PROTOCOL_FEE_BPS) \div BPS_DENOMINATOR
                     out == raw - fee
                 IN  /\ wide \in 0..U64_MAX
                     /\ raw \in 0..U64_MAX
                     /\ fee \in 0..raw
                     /\ last.err = "none"
                     /\ last.ev.amount_out = out
                     /\ \A real \in {0, x, U64_MAX}, sold \in {0, amount, U64_MAX} :
                          LET c == [BondingCurve_initialize("m1", "alice", 1)
                                      EXCEPT !.virtual_sol_reserve = x,
                                             !.virtual_token_reserve = y,
                                             !.real_sol_reserve = real,
                                             !.tokens_sold = sold]
                              c1 == IF buy THEN update_after_buy(c, amount, out)
                                    ELSE update_after_sell(c, amount, out)
                              ok == IF buy THEN update_after_buy_ok(c, amount, out)
                                    ELSE update_after_sell_ok(c, amount, out)
                              sgn == IF buy THEN 1 ELSE -1
                              exact == <<x + sgn * (IF buy THEN amount ELSE out),
                                         y - sgn * (IF buy THEN out ELSE amount),
                                         real + sgn * (IF buy THEN amount ELSE out),
                                         sold + sgn * (IF buy THEN out ELSE amount)>>
                          IN  /\ ok <=> \A i \in 1..4 : exact[i] \in 0..U64_MAX
                              /\ ok => <<c1.virtual_sol_reserve, c1.virtual_token_reserve,
                                         c1.real_sol_reserve, c1.tokens_sold>> = exact

C21_Witness ==
    /\ last.op = "quote"
    /\ last.ev.kind = "QuoteBuy"
    /\ last.ev.virtual_sol_reserve = 2000
    /\ last.ev.virtual_token_reserve > 0
    /\ last.ev.amount_in = U64_MAX
    /\ last.err = "MathOverflow"

C21_WitnessSell ==
    /\ last.op = "quote"
    /\ last.ev.kind = "QuoteSell"
    /\ last.ev.virtual_sol_reserve > 0
    /\ last.ev.virtual_token_reserve = INITIAL_VIRTUAL_TOKEN_RESERVE
    /\ last.ev.amount_in = U64_MAX - 2000
    /\ last.err = "MathOverflow"

C21_WitnessEdge ==
    /\ last.op = "quote"
    /\ last.ev.kind = "QuoteBuy"
    /\ last.ev.virtual_sol_reserve = 2000
    /\ last.ev.virtual_token_reserve = INITIAL_VIRTUAL_TOKEN_RESERVE
    /\ last.ev.amount_in = U64_MAX - 2000
    /\ last.err = "none"
    /\ last.ev.amount_out > 0

(* C22: selling never triggers graduation.  No sell instruction, committed or *)
(* failed, changes completed or completed_at of any curve: a curve that is    *)
(* active before a sell is active after it.                                   *)
C22_SellNeverGraduates ==
    [][(Instruction /\ last'.op = "sell")
          => /\ DOMAIN curves' = DOMAIN curves
             /\ \A m \in DOMAIN curves :
                   /\ curves'[m].completed = curves[m].completed
                   /\ curves'[m].completed_at = curves[m].completed_at]_vars

C22_Witness ==
    /\ last.op = "sell"
    /\ last.ev.kind = "TokenSold"
    /\ last.ev.amount_out > 0
    /\ ~curves[last.ev.mint].completed
    /\ ~curves[last.ev.mint].completed_at.some
    /\ curves[last.ev.mint].tokens_sold > 0

C22_WitnessFailed ==
    /\ last.op = "sell"
    /\ last.err = "SlippageExceeded"
    /\ ~curves[last.mint].completed

C23_WitnessComplete ==
    /\ last.op = "complete"
    /\ last.err = "NotCompleted"
    /\ curves[last.mint].virtual_sol_reserve = TARGET_VIRTUAL_MC - 1

(* C24 (as claimed): a sell that passes every explicit check of the handler   *)
(* (curve active, positive amount, seller's token balance, quote, slippage,   *)
(* treasury balance) has sol_out <= real_sol_reserve and tokens_in <=         *)
(* tokens_sold, so that update_after_sell does not panic.                     *)
C24_SellNeverPanics ==
    Exists(DeepMint) =>
        \A tokens_in \in DeepSellAmounts :
            LET q == Sell_quote(DeepMint, tokens_in)
            IN  (/\ Sell_accounts(DeepMint) = "none"
                 /\ tokens_in > 0
                 /\ tokens[DeepMint][Trader] >= tokens_in
                 /\ q.ok
                 /\ ProtocolFee(q.val) <= q.val
                 /\ lamports["treasury"] >= Sell_sol_after_fee(q.val))
                   => /\ q.val <= curves[DeepMint].real_sol_reserve
                      /\ tokens_in <= curves[DeepMint].tokens_sold
                      /\ update_after_sell_ok(curves[DeepMint], tokens_in, q.val)
                      /\ Sell_error(Trader, DeepMint, tokens_in, 0) # "Panic"

(* C25: in every reachable state the virtual SOL reserve of a curve is the    *)
(* initial virtual SOL reserve plus its real SOL reserve, hence never below   *)
(* the initial value.                                                         *)
C25_VirtualIsInitialPlusReal ==
    \A m \in DOMAIN curves :
        /\ curves[m].virtual_sol_reserve =
             INITIAL_VIRTUAL_SOL_RESERVE + curves[m].real_sol_reserve
        /\ curves[m].real_sol_reserve >= 0
        /\ curves[m].virtual_sol_reserve >= INITIAL_VIRTUAL_SOL_RESERVE

C25_Witness ==
    /\ last.ev.kind = "TokenSold"
    /\ curves[last.ev.mint].real_sol_reserve > 0
    /\ curves[last.ev.mint].virtual_sol_reserve > INITIAL_VIRTUAL_SOL_RESERVE
    /\ last.ev.amount_out > 1

RECURSIVE RealSolTotal(_)
RealSolTotal(ms) ==
    IF ms = {} THEN 0
    ELSE LET m == CHOOSE x \in ms : TRUE
         IN  curves[m].real_sol_reserve + RealSolTotal(ms \ {m})

(* C26: in every reachable state the treasury holds at least the sum of the   *)
(* real SOL reserves of all curves.                                           *)
C26_TreasuryBacksReserves ==
    lamports["treasury"] >= RealSolTotal(DOMAIN curves)

C26_Witness ==
    /\ last.ev.kind = "TokenSold"
    /\ \A m \in Mints : Exists(m)
    /\ curves[last.ev.mint].real_sol_reserve > 0
    /\ lamports["treasury"] >= 2 * CREATION_FEE + curves[last.ev.mint].real_sol_reserve

RECURSIVE Held(_, _)
Held(m, us) ==
    IF us = {} THEN 0
    ELSE LET u == CHOOSE x \in us : TRUE
         IN  tokens[m][u] + Held(m, us \ {u})

(* C27: in every reachable state the token balances of all holders of a mint  *)
(* sum to the tokens_sold of its curve (to zero for a mint without a curve).  *)
C27_HeldEqualsSold ==
    \A m \in Mints :
        Held(m, Users) = IF Exists(m) THEN curves[m].tokens_sold ELSE 0

C27_Witness ==
    /\ last.ev.kind = "TokenSold"
    /\ \A u \in Users : tokens[last.ev.mint][u] > 0
    /\ curves[last.ev.mint].tokens_sold > 0

(* C28 (as claimed): no sequence of buys and sells lets a trader profit from  *)
(* rounding.  The trader starts without tokens and does nothing but buy and   *)
(* sell on one curve, and nobody else trades while the trader holds tokens:   *)
(* whenever the trader's token balance is back at zero, the trader holds at   *)
(* most the lamports held at the start.                                       *)
C28_NoRoundingProfit ==
    tokens[DeepMint][Trader] = 0 => lamports[Trader] <= InitialLamports(Trader)

====
